---- MODULE Spec2Model ----
(***************************************************************************)
(* A model of ChemAbund (src/chem_abund.py), the abundance store of the    *)
(* turbospec wrapper: one store object, its constructor and its three      *)
(* public methods, with the attribute table the code builds by             *)
(* setattr/getattr under names "<element.lower()>_<reference.lower()>".    *)
(* It is followed by models of TurbospecManager (src/turbospec_manager.py) *)
(* and ConvolutionManager (src/turbospec_tools.py), each with a            *)
(* specification of its own: Spec is the store, SpecStore the store under  *)
(* the calls that write to it, SpecManager the manager with the            *)
(* TurboSynth.set_abund (src/turbosynth.py) that writes to its table,      *)
(* SpecSetAbund the manager's set_abund applied to its arguments,          *)
(* SpecFaltbon the convolution manager.                                    *)
(*                                                                         *)
(* An attribute name is the pair <<element part, reference part>>.         *)
(* Abundance values are integers (exact arithmetic).  A Python exception   *)
(* ends the method where it is raised; what the method had written to the  *)
(* object by then stays written.                                           *)
(*                                                                         *)
(* The abundance keys are metals (C, Mg, Fe, and the spelling "fe"); a     *)
(* mapping has one key per element.  Hydrogen is no key: its abundance is  *)
(* fixed by definition (logeps 12, [H/H] 0).                               *)
(***************************************************************************)
EXTENDS Integers, Sequences, FiniteSets, TLC

VARIABLES
    pc,          \* "new": no store yet; "live": constructed; "failed": __init__ raised
    created,     \* the arguments __init__ was called with
    attrs,       \* the abundance attributes of the object: name -> value
    elements,    \* self.elements: the keys of the abundances mapping, in its order
    references,  \* self.references
    solarref,    \* self.solarref
    call,        \* the last call: [op, arg]
    err,         \* its outcome: "ok" or the exception it raised
    ret,         \* what it returned: [kind |-> "None"] or a dict
    printed,     \* whether it printed its report
    mpc,         \* the TurbospecManager: "new", "live", or "failed": __init__ raised
    mgr,         \* its attributes: name -> value
    stages,      \* the stage calls its __init__ made, with the keywords passed
    convmgr,     \* the ConvolutionManager, None before it is constructed
    proc         \* the faltbon process the last run_faltbon started

\* the abundance store
chem == <<pc, created, attrs, elements, references, solarref>>

\* the managers of the external codes
tools == <<mpc, mgr, stages, convmgr, proc>>

vars == <<pc, created, attrs, elements, references, solarref, call, err, ret, printed,
          mpc, mgr, stages, convmgr, proc>>

----------------------------------------------------------------------------
(* Bounds of the model *)

\* abundance values given to the constructor are 0 .. MaxVal
MaxVal == 1

Vals == 0 .. MaxVal

----------------------------------------------------------------------------
(* Strings *)

\* str.lower() on the strings of the model
Lower(s) ==
    CASE s = "C" -> "c"
      [] s = "Mg" -> "mg"
      [] s = "Fe" -> "fe"
      [] s = "H" -> "h"
      [] s = "Asplund2009" -> "asplund2009"
      [] s = "Grevesse2007" -> "grevesse2007"
      [] s = "Unknown2000" -> "unknown2000"
      [] OTHER -> s

\* str.title() on the tags of the model
Title(s) ==
    CASE s = "c" -> "C"
      [] s = "mg" -> "Mg"
      [] s = "fe" -> "Fe"
      [] s = "h" -> "H"
      [] s = "logeps" -> "Logeps"
      [] OTHER -> s

----------------------------------------------------------------------------
(* The solar composition lookup, abund_utils.solar_abund *)

SolarNames == {"Asplund2009", "Grevesse2007"}

\* the table of a recognized name; hydrogen and helium head it
SolarTable(name) ==
    IF name = "Asplund2009"
    THEN [e \in {"H", "He", "C", "Mg", "Fe"} |->
            CASE e = "H" -> 4 [] e = "He" -> 3 [] e = "C" -> 1 [] e = "Mg" -> 2 [] e = "Fe" -> 3]
    ELSE [e \in {"H", "He", "C", "Mg", "Fe"} |->
            CASE e = "H" -> 4 [] e = "He" -> 3 [] e = "C" -> 3 [] e = "Mg" -> 1 [] e = "Fe" -> 1]

\* a solar composition supplied as a mapping instead of a name
CustomSolar == [e \in {"C", "Mg", "Fe"} |-> CASE e = "C" -> 2 [] e = "Mg" -> 2 [] e = "Fe" -> 0]

StrArg(s) == [kind |-> "str", val |-> s]
DictArg == [kind |-> "dict", val |-> "CustomSolar"]
NoneArg == [kind |-> "None", val |-> "None"]

\* abundances=None
NoAbundances == [kind |-> "None", items |-> <<>>]

\* solar_abund(reference=...): the table of a recognized name; any other
\* argument is not recognized
solar_abund(reference) ==
    IF reference.kind = "str" /\ reference.val \in SolarNames
    THEN [err |-> "ok", dict |-> SolarTable(reference.val)]
    ELSE [err |-> "UnknownReference", dict |-> CustomSolar]

----------------------------------------------------------------------------
(* The object *)

EmptyDict == [x \in {} |-> 0]

NoneRet == [kind |-> "None", dict |-> EmptyDict]
DictRet(d) == [kind |-> "dict", dict |-> d]

\* setattr(self, name, value)
setattr(at, name, value) ==
    [x \in (DOMAIN at) \cup {name} |-> IF x = name THEN value ELSE at[x]]

\* hasattr: getattr raises AttributeError for a name that was never set
hasattr(at, name) == name \in DOMAIN at

Obj(at, el, refs, sol) ==
    [attrs |-> at, elements |-> el, references |-> refs, solarref |-> sol]

\* the outcome of a method: the object as the method left it, and "ok" or
\* the exception raised
Out(self, e) == [self |-> self, err |-> e]

\* the end of a conversion loop r: self.references.add(tag), unless the loop raised
Added(self, r, tag) ==
    IF r.err # "ok"
    THEN Out(Obj(r.attrs, self.elements, self.references, self.solarref), r.err)
    ELSE Out(Obj(r.attrs, self.elements, self.references \cup {tag}, self.solarref), "ok")

Range(s) == {s[i] : i \in DOMAIN s}

----------------------------------------------------------------------------
(* _set_data *)

\* the attribute one item of the input is stored under
set_data_name(element, reference) ==
    IF Lower(element) = reference
    THEN <<Lower(element), "h">>
    ELSE <<Lower(element), Lower(reference)>>

RECURSIVE set_data_loop(_, _, _)
set_data_loop(at, items, reference) ==
    IF items = <<>> THEN at
    ELSE set_data_loop(setattr(at, set_data_name(Head(items)[1], reference), Head(items)[2]),
                       Tail(items), reference)

\* the element names lower-cased like the attribute names
Keys_lower(items) == [i \in DOMAIN items |-> Lower(items[i][1])]

\* abundances.keys(): a view of the mapping the caller passed; the calls of
\* the model leave that mapping as it was given
Keys(items) == [i \in DOMAIN items |-> items[i][1]]

set_data(self, abundances, reference) ==
    Obj(set_data_loop(self.attrs, abundances, reference),
        Keys(abundances),
        self.references \cup {Lower(reference)},
        self.solarref)

----------------------------------------------------------------------------
(* _ref_to_h *)

\* a slip of sign in line 64
ref_to_h_value_sub(x_ref, ref_h) == x_ref - ref_h

ref_to_h_value(x_ref, ref_h) == x_ref + ref_h

\* the loop over self.elements from position i on; a missing attribute
\* raises AttributeError and ends it
RECURSIVE ref_to_h_loop(_, _, _, _)
ref_to_h_loop(at, els, i, reference) ==
    IF i > Len(els) THEN [attrs |-> at, err |-> "ok"]
    ELSE IF els[i] = reference THEN ref_to_h_loop(at, els, i + 1, reference)
    ELSE IF ~hasattr(at, <<Lower(els[i]), Lower(reference)>>)
            \/ ~hasattr(at, <<Lower(reference), "h">>)
         THEN [attrs |-> at, err |-> "AttributeError"]
    ELSE ref_to_h_loop(
            setattr(at, <<Lower(els[i]), "h">>,
                    ref_to_h_value(at[<<Lower(els[i]), Lower(reference)>>],
                                   at[<<Lower(reference), "h">>])),
            els, i + 1, reference)

ref_to_h(self, reference) ==
    Added(self, ref_to_h_loop(self.attrs, self.elements, 1, reference), "h")

----------------------------------------------------------------------------
(* _h_to_ref *)

\* a slip of sign in lines 72-73
h_to_ref_value_add(x_h, ref_h) == x_h + ref_h

h_to_ref_value(x_h, ref_h) == x_h - ref_h

\* the loop of lines 68-73 writing its result over the h value
RECURSIVE h_to_ref_loop_over_h(_, _, _, _)
h_to_ref_loop_over_h(at, els, i, reference) ==
    IF i > Len(els) THEN [attrs |-> at, err |-> "ok"]
    ELSE IF els[i] = reference THEN h_to_ref_loop_over_h(at, els, i + 1, reference)
    ELSE IF ~hasattr(at, <<Lower(els[i]), "h">>)
            \/ ~hasattr(at, <<Lower(reference), "h">>)
         THEN [attrs |-> at, err |-> "AttributeError"]
    ELSE h_to_ref_loop_over_h(
            setattr(at, <<Lower(els[i]), "h">>,
                    h_to_ref_value(at[<<Lower(els[i]), "h">>],
                                   at[<<Lower(reference), "h">>])),
            els, i + 1, reference)

RECURSIVE h_to_ref_loop(_, _, _, _)
h_to_ref_loop(at, els, i, reference) ==
    IF i > Len(els) THEN [attrs |-> at, err |-> "ok"]
    ELSE IF els[i] = reference THEN h_to_ref_loop(at, els, i + 1, reference)
    ELSE IF ~hasattr(at, <<Lower(els[i]), "h">>)
            \/ ~hasattr(at, <<Lower(reference), "h">>)
         THEN [attrs |-> at, err |-> "AttributeError"]
    ELSE h_to_ref_loop(
            setattr(at, <<Lower(els[i]), Lower(reference)>>,
                    h_to_ref_value(at[<<Lower(els[i]), "h">>],
                                   at[<<Lower(reference), "h">>])),
            els, i + 1, reference)

h_to_ref(self, reference) ==
    Added(self, h_to_ref_loop(self.attrs, self.elements, 1, reference), Lower(reference))

----------------------------------------------------------------------------
(* _logeps_to_h and _h_to_logeps *)

\* a slip of sign in line 80
logeps_to_h_value_add(x_logeps, x_solar) == x_logeps + x_solar

\* the solar value of line 80 not subtracted
logeps_to_h_value_keep(x_logeps, x_solar) == x_logeps

logeps_to_h_value(x_logeps, x_solar) == x_logeps - x_solar

\* solar_dict[element] raises KeyError for an element the table lacks
RECURSIVE logeps_to_h_loop(_, _, _, _)
logeps_to_h_loop(at, els, i, solar_dict) ==
    IF i > Len(els) THEN [attrs |-> at, err |-> "ok"]
    ELSE IF ~hasattr(at, <<Lower(els[i]), "logeps">>)
         THEN [attrs |-> at, err |-> "AttributeError"]
    ELSE IF els[i] \notin DOMAIN solar_dict
         THEN [attrs |-> at, err |-> "KeyError"]
    ELSE logeps_to_h_loop(
            setattr(at, <<Lower(els[i]), "h">>,
                    logeps_to_h_value(at[<<Lower(els[i]), "logeps">>], solar_dict[els[i]])),
            els, i + 1, solar_dict)

logeps_to_h(self, solar_dict) ==
    Added(self, logeps_to_h_loop(self.attrs, self.elements, 1, solar_dict), "h")

\* a slip of sign in line 87
h_to_logeps_value_sub(x_h, x_solar) == x_h - x_solar

h_to_logeps_value(x_h, x_solar) == x_h + x_solar

RECURSIVE h_to_logeps_loop(_, _, _, _)
h_to_logeps_loop(at, els, i, solar_dict) ==
    IF i > Len(els) THEN [attrs |-> at, err |-> "ok"]
    ELSE IF ~hasattr(at, <<Lower(els[i]), "h">>)
         THEN [attrs |-> at, err |-> "AttributeError"]
    ELSE IF els[i] \notin DOMAIN solar_dict
         THEN [attrs |-> at, err |-> "KeyError"]
    ELSE h_to_logeps_loop(
            setattr(at, <<Lower(els[i]), "logeps">>,
                    h_to_logeps_value(at[<<Lower(els[i]), "h">>], solar_dict[els[i]])),
            els, i + 1, solar_dict)

h_to_logeps(self, solar_dict) ==
    Added(self, h_to_logeps_loop(self.attrs, self.elements, 1, solar_dict), "logeps")

----------------------------------------------------------------------------
(* set_solarref *)

\* the tags set_solarref collects in runlist
runlist(refs) == {ref \in refs : ref # "logeps" /\ ref # "h"}

\* the orders in which "for ref in self.references" can deliver them
Orders(S) == {o \in [1 .. Cardinality(S) -> S] : Range(o) = S}

\* the re-derivation of the relative systems left out
rerun_skip(self, order, i) == Out(self, "ok")

\* for ref in runlist: self._h_to_ref(ref.title())
RECURSIVE rerun(_, _, _)
rerun(self, order, i) ==
    IF i > Len(order) THEN Out(self, "ok")
    ELSE LET r == h_to_ref(self, Title(order[i])) IN
         IF r.err # "ok" THEN r ELSE rerun(r.self, order, i + 1)

\* the Fe default left out
fe_default_skip(self) == Out(self, "ok")

\* if 'Fe' in self.elements and 'fe' not in self.references: self._h_to_ref('Fe')
fe_default(self) ==
    IF "Fe" \in Range(self.elements) /\ "fe" \notin self.references
    THEN h_to_ref(self, "Fe")
    ELSE Out(self, "ok")

\* self.solarref = solar_reference.lower()
store_solarref(self, solar_reference) ==
    IF solar_reference.kind # "str"
    THEN Out(self, "AttributeError")
    ELSE Out(Obj(self.attrs, self.elements, self.references, Lower(solar_reference.val)), "ok")

\* the branch with h derived only when it is not there yet
solarref_from_logeps_once(self, solar_dict, order) ==
    LET a == IF "h" \in self.references THEN Out(self, "ok")
             ELSE logeps_to_h(self, solar_dict) IN
    IF a.err # "ok" THEN a
    ELSE LET b == rerun(a.self, order, 1) IN
         IF b.err # "ok" THEN b ELSE fe_default(b.self)

\* the branch taken when 'logeps' is in self.references
solarref_from_logeps(self, solar_dict, order) ==
    LET a == logeps_to_h(self, solar_dict) IN
    IF a.err # "ok" THEN a
    ELSE LET b == rerun(a.self, order, 1) IN
         IF b.err # "ok" THEN b ELSE fe_default(b.self)

\* a lookup failure swallowed, with Asplund2009 as the fallback
lookup_default(solar_reference) ==
    IF solar_reference.kind = "None" THEN [err |-> "unbound", dict |-> EmptyDict]
    ELSE IF solar_abund(solar_reference).err = "ok" THEN solar_abund(solar_reference)
    ELSE [err |-> "ok", dict |-> SolarTable("Asplund2009")]

\* lines 91-92: solar_dict is bound only if solar_reference is not None
lookup(solar_reference) ==
    IF solar_reference.kind # "None"
    THEN solar_abund(solar_reference)
    ELSE [err |-> "unbound", dict |-> EmptyDict]

\* the two branches of lines 94 and 104 tested in the other order
convert_h_first(self, looked, order) ==
    IF "h" \in self.references
    THEN IF looked.err = "unbound" THEN Out(self, "UnboundLocalError")
         ELSE h_to_logeps(self, looked.dict)
    ELSE IF "logeps" \in self.references
    THEN IF looked.err = "unbound" THEN Out(self, "UnboundLocalError")
         ELSE solarref_from_logeps(self, looked.dict, order)
    ELSE Out(self, "ok")

\* lines 94-105, with what lines 91-92 left in solar_dict
convert(self, looked, order) ==
    IF "logeps" \in self.references
    THEN IF looked.err = "unbound" THEN Out(self, "UnboundLocalError")
         ELSE solarref_from_logeps(self, looked.dict, order)
    ELSE IF "h" \in self.references
    THEN IF looked.err = "unbound" THEN Out(self, "UnboundLocalError")
         ELSE h_to_logeps(self, looked.dict)
    ELSE Out(self, "ok")

\* order: the iteration order of self.references over the tags of runlist
set_solarref(self, solar_reference, order) ==
    IF lookup(solar_reference).err \notin {"ok", "unbound"}
    THEN Out(self, lookup(solar_reference).err)
    ELSE LET conv == convert(self, lookup(solar_reference), order) IN
         IF conv.err # "ok" THEN conv ELSE store_solarref(conv.self, solar_reference)

----------------------------------------------------------------------------
(* calculate_xref and format_abundances *)

\* a method's outcome together with whether it printed its report
Report(r, p) == [self |-> r.self, err |-> r.err, printed |-> p]

\* the guard of line 110 left out
calculate_xref_unguarded(self, reference) == Report(h_to_ref(self, reference), FALSE)

calculate_xref(self, reference) ==
    IF "h" \in self.references
    THEN Report(h_to_ref(self, reference), FALSE)
    ELSE Report(Out(self, "ok"), TRUE)

\* the attribute format_abundances reads for one element
format_name(element, reference) ==
    IF element = reference
    THEN <<Lower(element), "h">>
    ELSE <<Lower(element), Lower(reference)>>

RECURSIVE format_loop(_, _, _, _, _)
format_loop(at, els, i, reference, output) ==
    IF i > Len(els) THEN [err |-> "ok", ret |-> DictRet(output), printed |-> FALSE]
    ELSE IF ~hasattr(at, format_name(els[i], reference))
         THEN [err |-> "AttributeError", ret |-> NoneRet, printed |-> FALSE]
    ELSE format_loop(at, els, i + 1, reference,
                     setattr(output, els[i], at[format_name(els[i], reference)]))

\* the guard of line 117 left out
format_abundances_unguarded(self, reference) ==
    format_loop(self.attrs, self.elements, 1, reference, EmptyDict)

format_abundances(self, reference) ==
    IF Lower(reference) \notin self.references
    THEN [err |-> "ok", ret |-> NoneRet, printed |-> TRUE]
    ELSE format_loop(self.attrs, self.elements, 1, reference, EmptyDict)

----------------------------------------------------------------------------
(* __init__ *)

EmptyAttrs == [x \in {} |-> 0]

\* the object before __init__ has stored anything
Blank == Obj(EmptyAttrs, <<>>, {}, "None")

\* the check of lines 35-37 left out
init_data_unchecked(abundances, reference) ==
    Out(set_data(Blank, abundances.items, Lower(reference)), "ok")

\* lines 33-39: the check of the reference and _set_data
init_data(abundances, reference) ==
    IF Lower(reference) \in {"logeps", "h"}
    THEN Out(set_data(Blank, abundances.items, Lower(reference)), "ok")
    ELSE IF reference \notin Range(Keys(abundances.items))
    THEN Out(Blank, "IndexError")
    ELSE Out(set_data(Blank, abundances.items, Lower(reference)), "ok")

\* the conversion of lines 41-42 left out
init_ref_to_h_skip(self, reference) == Out(self, "ok")

\* lines 41-42
init_ref_to_h(self, reference) ==
    IF Lower(reference) # "logeps" /\ Lower(reference) # "h"
    THEN ref_to_h(self, reference)
    ELSE Out(self, "ok")

\* lines 44-45
init_solarref(self, solar_reference) ==
    IF solar_reference.kind # "None"
    THEN set_solarref(self, solar_reference, CHOOSE o \in Orders(runlist(self.references)) : TRUE)
    ELSE Out(self, "ok")

init(abundances, reference, solar_reference) ==
    IF abundances.kind = "None" THEN Out(Blank, "TypeError")
    ELSE LET a == init_data(abundances, reference) IN
         IF a.err # "ok" THEN a
         ELSE LET b == init_ref_to_h(a.self, reference) IN
              IF b.err # "ok" THEN b
              ELSE LET c == init_solarref(b.self, solar_reference) IN
                   IF c.err # "ok" THEN c ELSE fe_default(c.self)

----------------------------------------------------------------------------
(* TurbospecManager (src/turbospec_manager.py): values and tables *)

\* a value passed where None is the default
Given(v) == [kind |-> "val", val |-> v]

\* a list object
ListArg(l) == [kind |-> "list", val |-> l]

\* key in KEYS, for a key that is a string: a member that is not a string
\* never equals it
InKeys(key, keys) ==
    \E i \in DOMAIN keys : keys[i].kind = "str" /\ keys[i].val = key

\* line 5 ends in a comma: WAVE_KEYS is a tuple whose one member is the list
WAVE_KEYS == <<ListArg(<<"lambda_range", "delta_lambda">>)>>

ABUND_KEYS ==
    <<StrArg("metals"), StrArg("alphas"), StrArg("helium"), StrArg("rprocess"),
      StrArg("sprocess"), StrArg("elements")>>

BABSMA_KEYS == <<StrArg("model"), StrArg("vmicro"), StrArg("marcs_file_flag")>>

BSYN_KEYS == <<StrArg("sph_flag"), StrArg("linelists"), StrArg("isotopes")>>

\* {key: value for key, value in kwargs.items() if key in KEYS}
select(kwargs, keys) ==
    [k \in {x \in DOMAIN kwargs : InKeys(x, keys)} |-> kwargs[k]]

\* the argument a method sees for one of its parameters
Arg(kw, name, default) == IF name \in DOMAIN kw THEN kw[name] ELSE default

\* abund_utils.ALPHAS: the alpha elements, of which the tables here hold Mg
ALPHAS == <<"Mg">>

\* abund_utils.atomic_sym_to_num
atomic_sym_to_num(elem) ==
    CASE elem = "H" -> 1
      [] elem = "He" -> 2
      [] elem = "C" -> 6
      [] elem = "Mg" -> 12
      [] elem = "Fe" -> 26

----------------------------------------------------------------------------
(* TurbospecManager: set_wave and set_abund *)

\* a call with a keyword the method has no parameter for raises TypeError
\* before the method runs
Unexpected(kw, params) == DOMAIN kw \ params # {}

\* the default step of set_wave, 0.01 angstrom; wavelengths are counted in
\* units of 0.01 angstrom
DefaultDeltaLambda == 1

\* set_wave(**kw); line 79 is executed before lambda_range is subscripted
set_wave(self, kw) ==
    IF Unexpected(kw, {"lambda_range", "delta_lambda"}) THEN Out(self, "TypeError")
    ELSE LET lambda_range == Arg(kw, "lambda_range", NoneArg)
             delta_lambda == Arg(kw, "delta_lambda", DefaultDeltaLambda)
             a == setattr(self, "delta_lambda", delta_lambda)
         IN IF lambda_range.kind = "None" THEN Out(a, "TypeError")
            ELSE Out(setattr(setattr(setattr(a,
                        "lambda_min", lambda_range.val[1] - delta_lambda),
                        "lambda_max", lambda_range.val[2] + delta_lambda),
                        "_wave_flag", TRUE), "ok")

\* lines 124-127: the table of a name, or the mapping itself; anything else
\* leaves solar_abu unbound
solar_abu_of(solar_reference) ==
    IF solar_reference.kind = "str" THEN solar_abund(solar_reference)
    ELSE IF solar_reference.kind = "dict" THEN [err |-> "ok", dict |-> CustomSolar]
    ELSE [err |-> "UnboundLocalError", dict |-> EmptyDict]

\* the scaling by metals forgotten
scaled_value_keep(abund, metals) == abund

\* abund + metals of line 129
scaled_value(abund, metals) == abund + metals

\* lines 129-130
scaled(solar_abu, metals) ==
    [elem \in DOMAIN solar_abu \ {"H", "He"} |-> scaled_value(solar_abu[elem], metals)]

\* lines 132-134
RECURSIVE alpha_loop(_, _, _)
alpha_loop(abundance_dict, i, alphas) ==
    IF i > Len(ALPHAS) THEN abundance_dict
    ELSE IF ALPHAS[i] \in DOMAIN abundance_dict
    THEN alpha_loop([abundance_dict EXCEPT ![ALPHAS[i]] = @ + alphas], i + 1, alphas)
    ELSE alpha_loop(abundance_dict, i + 1, alphas)

\* lines 136-138
RECURSIVE given_loop(_, _)
given_loop(abundance_dict, items) ==
    IF items = <<>> THEN abundance_dict
    ELSE given_loop(setattr(abundance_dict, Head(items)[1], Head(items)[2]), Tail(items))

\* lines 140-141: the entries not excluded
not_excluded(abundance_dict, exclude) ==
    [elem \in DOMAIN abundance_dict \ Range(exclude) |-> abundance_dict[elem]]

\* lines 140-141: the table keyed by atomic number
by_number(d) ==
    [n \in {atomic_sym_to_num(elem) : elem \in DOMAIN d} |->
        d[CHOOSE elem \in DOMAIN d : atomic_sym_to_num(elem) = n]]

set_abund(self, kw) ==
    IF Unexpected(kw, {"metals", "alphas", "helium", "rprocess", "sprocess",
                       "abundances", "solar_reference", "exclude"})
    THEN Out(self, "TypeError")
    ELSE LET metals == Arg(kw, "metals", 0)
             alphas == Arg(kw, "alphas", 0)
             abundances == Arg(kw, "abundances", NoAbundances)
             exclude == Arg(kw, "exclude", <<"H", "He">>)
             a == setattr(setattr(setattr(setattr(setattr(self,
                     "metals", metals),
                     "alphas", alphas),
                     "helium", Arg(kw, "helium", 0)),
                     "rprocess", Arg(kw, "rprocess", 0)),
                     "sprocess", Arg(kw, "sprocess", 0))
             solar_abu == solar_abu_of(Arg(kw, "solar_reference", StrArg("Asplund2009")))
         IN IF solar_abu.err # "ok" THEN Out(a, solar_abu.err)
            ELSE LET d == alpha_loop(scaled(solar_abu.dict, metals), 1, alphas)
                     g == IF abundances.kind = "None" THEN d ELSE given_loop(d, abundances.items)
                 IN Out(setattr(setattr(a,
                           "abundances", by_number(not_excluded(g, exclude))),
                           "_abund_flag", TRUE), "ok")

----------------------------------------------------------------------------
(* TurboSynth.set_abund (src/turbosynth.py) *)

\* TurboSynth.set_abund(element, abund) on the manager the TurboSynth holds:
\* one entry of its table is assigned once set_abund has made the table,
\* nothing is done before
synth_set_abund(turbodaemon, element, abund) ==
    IF turbodaemon["_abund_flag"]
    THEN setattr(turbodaemon, "abundances",
                 setattr(turbodaemon["abundances"], atomic_sym_to_num(element), abund))
    ELSE turbodaemon

----------------------------------------------------------------------------
(* TurbospecManager: run_babsma, run_bsyn and __init__ *)

\* a method's outcome with the value it returned
Ret(self, e, r) == [self |-> self, err |-> e, ret |-> r]

\* str() of a string or None, as an f-string formats it
Str(o) == IF o.kind = "None" THEN "None" ELSE o.val

\* _write_parameters reads these attributes, all before it reads linelists
written_attributes ==
    {"lambda_min", "lambda_max", "delta_lambda", "opac_filename", "metals", "alphas",
     "helium", "rprocess", "sprocess", "abundances"}

\* _write_parameters: the exception it raises, if any; len(None) is a TypeError
write_parameters(self, version, linelists) ==
    IF ~(written_attributes \subseteq DOMAIN self) THEN "AttributeError"
    ELSE IF version = "bsyn" /\ linelists.kind = "None" THEN "TypeError"
    ELSE "ok"

\* run_babsma(**kw); isfile: whether the model file exists. The babsma
\* process, once its input is written, is taken to run to its end.
run_babsma(self, kw, isfile) ==
    IF Unexpected(kw, {"model", "vmicro", "marcs_file_flag", "verbose"})
    THEN Ret(self, "TypeError", NoneArg)
    ELSE LET model == Arg(kw, "model", NoneArg)
             a == setattr(setattr(self,
                     "model", model),
                     "opac_filename", self["inpath"] \o "/" \o Str(model) \o "_opac")
         IN IF ~isfile THEN Ret(a, "UnboundLocalError", NoneArg)
            ELSE IF write_parameters(a, "babsma", NoneArg) # "ok"
            THEN Ret(a, write_parameters(a, "babsma", NoneArg), NoneArg)
            ELSE Ret(setattr(a, "_babsma_flag", TRUE), "ok", Given(a["opac_filename"]))

\* run_bsyn(**kw); line 283 sets _bsyn_flag, an attribute __init__ does not create
run_bsyn(self, kw) ==
    IF Unexpected(kw, {"opac_filename", "sph_flag", "linelists", "isotopes",
                       "result_filename", "verbose"})
    THEN Ret(self, "TypeError", NoneArg)
    ELSE LET opac_filename == Arg(kw, "opac_filename", NoneArg)
             a == IF opac_filename.kind # "None"
                  THEN setattr(self, "opac_filename", opac_filename.val)
                  ELSE self
             given == Arg(kw, "result_filename", NoneArg)
         IN IF given.kind = "None" /\ ~({"model", "lambda_min", "lambda_max"} \subseteq DOMAIN a)
            THEN Ret(a, "AttributeError", NoneArg)
            ELSE IF write_parameters(a, "bsyn", Arg(kw, "linelists", NoneArg)) # "ok"
            THEN Ret(a, write_parameters(a, "bsyn", Arg(kw, "linelists", NoneArg)), NoneArg)
            ELSE Ret(setattr(a, "_bsyn_flag", TRUE), "ok",
                     IF given.kind # "None" THEN given
                     ELSE Given(Str(a["model"]) \o "_" \o ToString(a["lambda_min"]) \o "_"
                                \o ToString(a["lambda_max"]) \o ".spec"))

\* whether run_babsma prints: one of its three advisories (lines 164-170), or
\* the parameter lines once they are written (lines 190-191)
babsma_prints(self, kw, isfile) ==
    /\ ~Unexpected(kw, {"model", "vmicro", "marcs_file_flag", "verbose"})
    /\ \/ ~self["_wave_flag"]
       \/ ~self["_abund_flag"]
       \/ ~isfile
       \/ run_babsma(self, kw, isfile).err = "ok"

\* whether run_bsyn prints: its advisory (lines 240-242), or the parameter
\* lines once they are written (lines 263-264)
bsyn_prints(self, kw) ==
    /\ ~Unexpected(kw, {"opac_filename", "sph_flag", "linelists", "isotopes",
                        "result_filename", "verbose"})
    /\ \/ Arg(kw, "opac_filename", NoneArg).kind = "None" /\ ~self["_babsma_flag"]
       \/ run_bsyn(self, kw).err = "ok"

\* lines 38-48: the manager before any stage
manager(inpath, outpath, turbopath, turbo_exec) ==
    [x \in {"inpath", "outpath", "turbopath", "turbo_exec",
            "_wave_flag", "_abund_flag", "_babsma_flag", "_syn_flag"} |->
        CASE x = "inpath" -> inpath
          [] x = "outpath" -> IF outpath.kind = "None" THEN inpath ELSE outpath.val
          [] x = "turbopath" -> turbopath
          [] x = "turbo_exec" -> turbopath \o "/" \o turbo_exec
          [] OTHER -> FALSE]

\* one stage call of __init__: the method and the keywords passed to it
Stage(name, kw) == [stage |-> name, kwargs |-> kw]

\* the outcome of __init__ with the stage calls it made
Staged(self, e, st) == [self |-> self, err |-> e, stages |-> st]

\* lines 51-63
auto_stages(self, kwargs, isfile) ==
    LET wave_kwargs == select(kwargs, WAVE_KEYS)
        abund_kwargs == select(kwargs, ABUND_KEYS)
        babsma_kwargs == select(kwargs, BABSMA_KEYS)
        bsyn_kwargs == select(kwargs, BSYN_KEYS)
        s1 == <<Stage("set_wave", wave_kwargs)>>
        s2 == Append(s1, Stage("set_abund", abund_kwargs))
        s3 == Append(s2, Stage("run_babsma", babsma_kwargs))
        s4 == Append(s3, Stage("run_bsyn", bsyn_kwargs))
        w == set_wave(self, wave_kwargs)
        a == set_abund(w.self, abund_kwargs)
        b == run_babsma(a.self, babsma_kwargs, isfile)
        y == run_bsyn(b.self, bsyn_kwargs)
    IN IF w.err # "ok" THEN Staged(w.self, w.err, s1)
       ELSE IF a.err # "ok" THEN Staged(a.self, a.err, s2)
       ELSE IF b.err # "ok" THEN Staged(b.self, b.err, s3)
       ELSE Staged(y.self, y.err, s4)

\* TurbospecManager(inpath, outpath, turbopath, turbo_exec, auto, **kwargs)
manager_init(inpath, outpath, turbopath, turbo_exec, auto, kwargs, isfile) ==
    IF auto
    THEN auto_stages(manager(inpath, outpath, turbopath, turbo_exec), kwargs, isfile)
    ELSE Staged(manager(inpath, outpath, turbopath, turbo_exec), "ok", <<>>)

----------------------------------------------------------------------------
(* ConvolutionManager (src/turbospec_tools.py) *)

\* lines 49-55
convolution_manager(inpath, outpath, faltbon_path) ==
    [inpath |-> inpath,
     outpath |-> IF outpath.kind = "None" THEN inpath ELSE outpath.val,
     faltbon_path |-> faltbon_path]

\* the velocity preferred to the FWHM
broadening_vel_first(fwhm, vel) ==
    IF vel.kind # "None" THEN Given(-1 * vel.val)
    ELSE IF fwhm.kind # "None" THEN Given(fwhm.val)
    ELSE NoneArg

\* lines 84-89: None stands for the TypeError of line 89
broadening_of(fwhm, vel) ==
    IF fwhm.kind # "None" THEN Given(fwhm.val)
    ELSE IF vel.kind # "None" THEN Given(-1 * vel.val)
    ELSE NoneArg

\* no faltbon process
NoProcess == [started |-> FALSE, exec |-> "", stdin |-> <<>>]

\* _write_parameters: the lines written to faltbon; the broadening is
\* formatted with three decimals
faltbon_parameters(infilepath, outfilepath, profile, broadening) ==
    <<infilepath \o "\n", outfilepath \o "\n", ToString(broadening) \o ".000\n",
      ToString(profile) \o "\n">>

\* run_faltbon: the exception raised, the name returned, and the process
\* started with its input. The process, once started, is taken to run to
\* its end.
run_faltbon(self, filename, profile, fwhm, vel, result) ==
    IF profile.kind = "None" THEN [err |-> "TypeError", ret |-> NoneArg, proc |-> NoProcess]
    ELSE IF broadening_of(fwhm, vel).kind = "None"
    THEN [err |-> "TypeError", ret |-> NoneArg, proc |-> NoProcess]
    ELSE LET broadening == broadening_of(fwhm, vel).val
             name == IF result.kind = "None"
                     THEN filename \o "_" \o ToString(profile.val) \o "_"
                          \o ToString(broadening) \o ".convol"
                     ELSE result.val
         IN [err |-> "ok",
             ret |-> Given(name),
             proc |-> [started |-> TRUE,
                       exec |-> self.faltbon_path \o "/faltbon",
                       stdin |-> faltbon_parameters(self.inpath \o "/" \o filename,
                                                    self.outpath \o "/" \o name,
                                                    profile.val, broadening)]]

----------------------------------------------------------------------------
(* The inputs *)

\* the key lists of the abundance mappings, in insertion order: the subsets
\* of C, Mg, Fe, and the lists that spell iron 'fe'
KeyLists ==
    {c \o m \o f : c \in {<<>>, <<"C">>}, m \in {<<>>, <<"Mg">>}, f \in {<<>>, <<"Fe">>}}
    \cup {c \o <<"fe">> : c \in {<<>>, <<"C">>}}

ItemLists ==
    UNION {{[i \in 1 .. Len(ks) |-> <<ks[i], v[i]>>] : v \in [1 .. Len(ks) -> Vals]}
           : ks \in KeyLists}

AbundArgs == {[kind |-> "dict", items |-> it] : it \in ItemLists} \cup {NoAbundances}

\* what is passed as reference to __init__, calculate_xref and format_abundances
RefArgs == {"logeps", "h", "C", "Mg", "Fe", "fe"}

\* what is passed as solar_reference to set_solarref: a recognized name, an
\* unrecognized name, a mapping
SolarArgs == {StrArg(n) : n \in SolarNames \cup {"Unknown2000"}} \cup {DictArg}

\* what is passed as solar_reference to __init__: the same, or nothing
InitSolarArgs == SolarArgs \cup {NoneArg}

----------------------------------------------------------------------------
(* The state machine *)

Self == Obj(attrs, elements, references, solarref)

NoCall == [op |-> "none", arg |-> "none"]

Init ==
    /\ pc = "new"
    /\ created = [abundances |-> NoAbundances, reference |-> "none", solar_reference |-> NoneArg]
    /\ attrs = EmptyAttrs
    /\ elements = <<>>
    /\ references = {}
    /\ solarref = "None"
    /\ call = NoCall
    /\ err = "ok"
    /\ ret = NoneRet
    /\ printed = FALSE
    /\ mpc = "new"
    /\ mgr = EmptyDict
    /\ stages = <<>>
    /\ convmgr = NoneArg
    /\ proc = NoProcess

\* ChemAbund(abundances, reference, solar_reference): an exception leaves no object
Create(abundances, reference, solar_reference) ==
    /\ pc = "new"
    /\ \E r \in {init(abundances, reference, solar_reference)} :
       /\ pc' = IF r.err = "ok" THEN "live" ELSE "failed"
       /\ attrs' = IF r.err = "ok" THEN r.self.attrs ELSE EmptyAttrs
       /\ elements' = IF r.err = "ok" THEN r.self.elements ELSE <<>>
       /\ references' = IF r.err = "ok" THEN r.self.references ELSE {}
       /\ solarref' = IF r.err = "ok" THEN r.self.solarref ELSE "None"
       /\ err' = r.err
    /\ created' = [abundances |-> abundances, reference |-> reference,
                   solar_reference |-> solar_reference]
    /\ call' = [op |-> "init", arg |-> reference]
    /\ ret' = NoneRet
    /\ printed' = FALSE

SetSolarref(solar_reference, order) ==
    /\ pc = "live"
    /\ \E r \in {set_solarref(Self, solar_reference, order)} :
       /\ attrs' = r.self.attrs
       /\ elements' = r.self.elements
       /\ references' = r.self.references
       /\ solarref' = r.self.solarref
       /\ err' = r.err
    /\ call' = [op |-> "set_solarref", arg |-> solar_reference.val]
    /\ ret' = NoneRet
    /\ printed' = FALSE
    /\ UNCHANGED <<pc, created>>

CalculateXref(reference) ==
    /\ pc = "live"
    /\ \E r \in {calculate_xref(Self, reference)} :
       /\ attrs' = r.self.attrs
       /\ elements' = r.self.elements
       /\ references' = r.self.references
       /\ solarref' = r.self.solarref
       /\ err' = r.err
       /\ printed' = r.printed
    /\ call' = [op |-> "calculate_xref", arg |-> reference]
    /\ ret' = NoneRet
    /\ UNCHANGED <<pc, created>>

FormatAbundances(reference) ==
    /\ pc = "live"
    /\ \E r \in {format_abundances(Self, reference)} :
       /\ err' = r.err
       /\ ret' = r.ret
       /\ printed' = r.printed
    /\ call' = [op |-> "format_abundances", arg |-> reference]
    /\ UNCHANGED <<pc, created, attrs, elements, references, solarref>>

\* the iteration orders of self.references a call of set_solarref can meet;
\* the call iterates only in the 'logeps' branch, after the lookup succeeded
RunOrders(solar_reference) ==
    IF lookup(solar_reference).err = "ok" /\ "logeps" \in references
    THEN Orders(runlist(references))
    ELSE {<<>>}

\* the calls a program can make, with their arguments
Construct ==
    pc = "new" /\ UNCHANGED tools /\ \E a \in AbundArgs, r \in RefArgs, s \in InitSolarArgs : Create(a, r, s)

CallSetSolarref ==
    pc = "live" /\ UNCHANGED tools /\ \E s \in SolarArgs : \E o \in RunOrders(s) : SetSolarref(s, o)

CallCalculateXref ==
    pc = "live" /\ UNCHANGED tools /\ \E r \in RefArgs : CalculateXref(r)

CallFormatAbundances ==
    pc = "live" /\ UNCHANGED tools /\ \E r \in RefArgs : FormatAbundances(r)

Next ==
    \/ Construct
    \/ CallSetSolarref
    \/ CallCalculateXref
    \/ CallFormatAbundances

Spec == Init /\ [][Next]_vars

\* the store under the calls that write to it: __init__, set_solarref and
\* calculate_xref (format_abundances assigns nothing)
NextStore ==
    \/ Construct
    \/ CallSetSolarref
    \/ CallCalculateXref

SpecStore == Init /\ [][NextStore]_vars

----------------------------------------------------------------------------
(* The TurbospecManager as a state machine *)

\* metals, alphas and the given abundances are 0 .. MaxScale
MaxScale == 1

Scales == 0 .. MaxScale

\* the keyword settings handed to TurbospecManager(...): any of these
ManagerSettings ==
    [lambda_range |-> Given(<<2, 4>>), delta_lambda |-> 2, metals |-> 1,
     model |-> Given("sun.mod"), linelists |-> Given(<<"lines">>)]

ManagerKwargs ==
    {[k \in K |-> ManagerSettings[k]] : K \in SUBSET DOMAIN ManagerSettings}

ManagerConstruct ==
    /\ mpc = "new"
    /\ \E outpath \in {NoneArg, Given("out")}, auto \in BOOLEAN, kwargs \in ManagerKwargs,
          isfile \in BOOLEAN :
          /\ \E r \in {manager_init("in", outpath, "ts", "exec-v19.1", auto, kwargs, isfile)} :
                /\ mpc' = IF r.err = "ok" THEN "live" ELSE "failed"
                /\ mgr' = IF r.err = "ok" THEN r.self ELSE EmptyDict
                /\ stages' = r.stages
                /\ err' = r.err
          /\ call' = [op |-> "manager_init",
                      arg |-> [outpath |-> outpath, auto |-> auto, kwargs |-> kwargs,
                               isfile |-> isfile]]
    /\ ret' = NoneRet
    /\ printed' = FALSE
    /\ UNCHANGED <<chem, convmgr, proc>>

\* a method of the manager called with the keywords kw: r is its outcome
ManagerCall(op, kw, r) ==
    /\ mgr' = r.self
    /\ err' = r.err
    /\ call' = [op |-> op, arg |-> kw]
    /\ UNCHANGED <<mpc, stages, chem, convmgr, proc>>

WaveCalls ==
    {[k \in K |-> ManagerSettings[k]] : K \in SUBSET {"lambda_range", "delta_lambda"}}

CallSetWave ==
    /\ mpc = "live"
    /\ \E kw \in WaveCalls : \E r \in {set_wave(mgr, kw)} :
          ManagerCall("set_wave", kw, r) /\ ret' = NoneRet /\ printed' = FALSE

\* the calls of set_abund made between the other stages
AbundCalls ==
    {EmptyDict, [metals |-> 1], [solar_reference |-> StrArg("Unknown2000")]}

CallSetAbund ==
    /\ mpc = "live"
    /\ \E kw \in AbundCalls : \E r \in {set_abund(mgr, kw)} :
          ManagerCall("set_abund", kw, r) /\ ret' = NoneRet /\ printed' = FALSE

\* the elements TurboSynth.set_abund is called for: hydrogen, which the
\* table lacks unless it was given, and Mg, which it holds unless excluded
SynthElements == {"H", "Mg"}

\* TurboSynth.set_abund(element, abund), called on the TurboSynth that holds
\* the manager
CallSynthSetAbund ==
    /\ mpc = "live"
    /\ \E element \in SynthElements, abund \in Scales :
          /\ mgr' = synth_set_abund(mgr, element, abund)
          /\ call' = [op |-> "TurboSynth.set_abund",
                      arg |-> [element |-> element, abund |-> abund]]
    /\ err' = "ok"
    /\ ret' = NoneRet
    /\ printed' = FALSE
    /\ UNCHANGED <<mpc, stages, chem, convmgr, proc>>

CallRunBabsma ==
    /\ mpc = "live"
    /\ \E kw \in {EmptyDict, [model |-> Given("sun.mod")]}, isfile \in BOOLEAN :
          \E r \in {run_babsma(mgr, kw, isfile)} :
             /\ ManagerCall("run_babsma", kw, r)
             /\ ret' = r.ret
             /\ printed' = babsma_prints(mgr, kw, isfile)

BsynCalls ==
    {EmptyDict,
     [linelists |-> Given(<<"lines">>)],
     [linelists |-> Given(<<"lines">>), opac_filename |-> Given("in/sun.mod_opac"),
      result_filename |-> Given("sun.spec")]}

CallRunBsyn ==
    /\ mpc = "live"
    /\ \E kw \in BsynCalls : \E r \in {run_bsyn(mgr, kw)} :
          /\ ManagerCall("run_bsyn", kw, r)
          /\ ret' = r.ret
          /\ printed' = bsyn_prints(mgr, kw)

NextManager ==
    \/ ManagerConstruct
    \/ CallSetWave
    \/ CallSetAbund
    \/ CallSynthSetAbund
    \/ CallRunBabsma
    \/ CallRunBsyn

SpecManager == Init /\ [][NextManager]_vars

----------------------------------------------------------------------------
(* set_abund applied to its arguments: the manager as TurbospecManager()   *)
(* makes it and the calls of TurbospecManager.set_abund, each of which     *)
(* replaces the whole table; the other calls on a manager, and             *)
(* TurboSynth.set_abund on its table, are steps of SpecManager             *)

\* the abundances given to set_abund: none, or values for Mg, for C and He,
\* for H and Fe
GivenAbundances ==
    {NoAbundances}
    \cup {[kind |-> "dict", items |-> <<<<"Mg", v>>>>] : v \in Scales}
    \cup {[kind |-> "dict", items |-> <<<<"C", v>>, <<"He", 0>>>>] : v \in Scales}
    \cup {[kind |-> "dict", items |-> <<<<"H", 1>>, <<"Fe", v>>>>] : v \in Scales}

Excludes == {<<"H", "He">>, <<"Fe">>, <<>>, <<"H", "He", "Mg">>}

SetAbundCalls ==
    {[metals |-> m, alphas |-> a, abundances |-> g, solar_reference |-> s, exclude |-> x] :
        m \in Scales, a \in Scales, g \in GivenAbundances,
        s \in {StrArg("Asplund2009"), StrArg("Grevesse2007"), DictArg}, x \in Excludes}

\* the manager as TurbospecManager() leaves it
ManagerMade ==
    /\ mpc = "new"
    /\ \E r \in {manager_init("in", NoneArg, "ts", "exec-v19.1", FALSE, EmptyDict, FALSE)} :
          /\ mpc' = "live"
          /\ mgr' = r.self
          /\ stages' = r.stages
          /\ err' = r.err
    /\ call' = [op |-> "manager_init",
                arg |-> [outpath |-> NoneArg, auto |-> FALSE, kwargs |-> EmptyDict,
                         isfile |-> FALSE]]
    /\ ret' = NoneRet
    /\ printed' = FALSE
    /\ UNCHANGED <<chem, convmgr, proc>>

ApplySetAbund ==
    /\ mpc = "live"
    /\ \E kw \in SetAbundCalls : \E r \in {set_abund(mgr, kw)} :
          ManagerCall("set_abund", kw, r) /\ ret' = NoneRet /\ printed' = FALSE

NextSetAbund ==
    \/ ManagerMade
    \/ ApplySetAbund

SpecSetAbund == Init /\ [][NextSetAbund]_vars

----------------------------------------------------------------------------
(* The ConvolutionManager as a state machine *)

\* the FWHM and the velocity given to run_faltbon are 0 .. MaxBroadening
MaxBroadening == 1

Broadenings == {NoneArg} \cup {Given(b) : b \in 0 .. MaxBroadening}

\* the four profiles of faltbon, or none given
Profiles == {NoneArg} \cup {Given(n) : n \in 1 .. 4}

ConvolutionConstruct ==
    /\ convmgr.kind = "None"
    /\ \E outpath \in {NoneArg, Given("out")} :
          /\ convmgr' = Given(convolution_manager("in", outpath, "bin"))
          /\ call' = [op |-> "convolution_init", arg |-> outpath]
    /\ err' = "ok"
    /\ ret' = NoneRet
    /\ printed' = FALSE
    /\ UNCHANGED <<chem, mpc, mgr, stages, proc>>

RunFaltbon ==
    /\ convmgr.kind # "None"
    /\ \E profile \in Profiles, fwhm \in Broadenings, vel \in Broadenings,
          result \in {NoneArg, Given("out.convol")} :
          /\ \E r \in {run_faltbon(convmgr.val, "sun.spec", profile, fwhm, vel, result)} :
                /\ err' = r.err
                /\ ret' = r.ret
                /\ proc' = r.proc
                /\ printed' = r.proc.started
          /\ call' = [op |-> "run_faltbon",
                      arg |-> [filename |-> "sun.spec", profile |-> profile, fwhm |-> fwhm,
                               vel |-> vel, result |-> result]]
    /\ UNCHANGED <<chem, mpc, mgr, stages, convmgr>>

NextFaltbon ==
    \/ ConvolutionConstruct
    \/ RunFaltbon

SpecFaltbon == Init /\ [][NextFaltbon]_vars

----------------------------------------------------------------------------
(* Properties *)

Tracked == Range(elements)

\* the value the constructor was given for key k
InputValue(k) ==
    LET its == created.abundances.items
        i == CHOOSE j \in DOMAIN its : its[j][1] = k
    IN its[i][2]

\* __init__ returned an object and nothing was called on it since
FreshlyCreated == pc = "live" /\ call.op = "init"

RelativeInput == Lower(created.reference) \notin {"logeps", "h"}

\* C1: right after construction from a relative input system E (a key of the
\* mapping), h is materialized and format_abundances('h') returns the input
\* value for E itself and input[X] + input[E] for every other element X.
C1_RelativeInputGivesH ==
    (FreshlyCreated /\ RelativeInput) =>
        /\ "h" \in references
        /\ LET out == format_abundances(Self, "h") IN
           /\ out.err = "ok"
           /\ out.ret.kind = "dict"
           /\ DOMAIN out.ret.dict = {created.abundances.items[i][1] :
                                        i \in DOMAIN created.abundances.items}
           /\ \A k \in DOMAIN out.ret.dict :
                 out.ret.dict[k] = IF k = created.reference
                                   THEN InputValue(k)
                                   ELSE InputValue(k) + InputValue(created.reference)

\* witness of C1: {C: 1, Fe: 1} given relative to Fe exports h with C -> 2, Fe -> 1
C1_Witness ==
    /\ FreshlyCreated
    /\ created.reference = "Fe"
    /\ created.solar_reference = NoneArg
    /\ created.abundances.items = <<<<"C", 1>>, <<"Fe", 1>>>>
    /\ format_abundances(Self, "h").ret.dict = [k \in {"C", "Fe"} |-> IF k = "C" THEN 2 ELSE 1]

\* the soft 'not ready' outcome of format_abundances: a report, None returned,
\* nothing raised
NotReady(r) == r.err = "ok" /\ r.printed /\ r.ret = NoneRet

\* C2: a store freshly created from logeps without a solar reference answers
\* format_abundances('h') and format_abundances('fe') with the soft
\* 'not ready' outcome, whatever its elements.
C2_FreshLogepsNotReady ==
    (FreshlyCreated /\ Lower(created.reference) = "logeps"
        /\ created.solar_reference = NoneArg) =>
        /\ NotReady(format_abundances(Self, "h"))
        /\ NotReady(format_abundances(Self, "fe"))

\* [X/E] = [X/H] - [E/H] for the relative system of tag t and every tracked
\* element X other than E
RelConsistent(t) ==
    \A x \in Tracked :
        Lower(x) # t =>
            /\ hasattr(attrs, <<Lower(x), t>>)
            /\ hasattr(attrs, <<Lower(x), "h">>)
            /\ hasattr(attrs, <<t, "h">>)
            /\ attrs[<<Lower(x), t>>] = attrs[<<Lower(x), "h">>] - attrs[<<t, "h">>]

\* C3: after a set_solarref that completed, every materialized relative system
\* holds [X/E] = [X/H] - [E/H] for the h values now in force, for every
\* tracked X other than E: no value derived under the former reference is left.
C3_NoStaleRelative ==
    (pc = "live" /\ call.op = "set_solarref" /\ err = "ok") =>
        \A t \in runlist(references) : RelConsistent(t)

\* witness of C3: [X/Mg] was materialized on {C: 1, Mg: 0, Fe: 1} (h input,
\* Asplund2009 given first), then the reference changed to Grevesse2007:
\* [C/Mg] is -2 (it was 1 under Asplund2009)
C3_Witness ==
    /\ pc = "live" /\ call.op = "set_solarref" /\ err = "ok"
    /\ created.reference = "h"
    /\ created.solar_reference = StrArg("Asplund2009")
    /\ created.abundances.items = <<<<"C", 1>>, <<"Mg", 0>>, <<"Fe", 1>>>>
    /\ solarref = "grevesse2007"
    /\ "mg" \in references
    /\ attrs[<<"c", "mg">>] = -2

\* the table of the reference self.solarref names
CurrentSolar == SolarTable(CHOOSE n \in SolarNames : Lower(n) = solarref)

\* C4: whenever a solar reference is set and logeps and h are both
\* materialized, h(X) = logeps(X) - solar(X) for every tracked X, and
\* deriving logeps again from h gives back the stored logeps values.
C4_LogepsHConsistent ==
    (pc = "live" /\ solarref # "None" /\ {"logeps", "h"} \subseteq references) =>
        /\ \A x \in Tracked :
              /\ x \in DOMAIN CurrentSolar
              /\ hasattr(attrs, <<Lower(x), "h">>)
              /\ hasattr(attrs, <<Lower(x), "logeps">>)
              /\ attrs[<<Lower(x), "h">>] = attrs[<<Lower(x), "logeps">>] - CurrentSolar[x]
        /\ h_to_logeps(Self, CurrentSolar) = Out(Self, "ok")

\* witness of C4: a store given in logeps, {C: 1, Fe: 0}, under Grevesse2007
\* after Asplund2009: [C/H] = 1 - 3, [Fe/H] = 0 - 1
C4_Witness ==
    /\ pc = "live"
    /\ created.reference = "logeps"
    /\ created.solar_reference = StrArg("Asplund2009")
    /\ created.abundances.items = <<<<"C", 1>>, <<"Fe", 0>>>>
    /\ solarref = "grevesse2007"
    /\ {"logeps", "h"} \subseteq references
    /\ attrs[<<"c", "h">>] = -2
    /\ attrs[<<"fe", "h">>] = -1

\* C5: with Fe tracked, fe is materialized whenever h is, and when __init__
\* returns after being given a solar reference, for every input system.
C5_FeDefault ==
    (pc = "live" /\ "Fe" \in Tracked) =>
        /\ "h" \in references => "fe" \in references
        /\ (call.op = "init" /\ created.solar_reference # NoneArg) => "fe" \in references

\* witness of C5: {C, Fe} given in logeps with a solar reference; __init__
\* has returned and [C/Fe] is there
C5_Witness ==
    /\ FreshlyCreated
    /\ created.reference = "logeps"
    /\ created.solar_reference = StrArg("Grevesse2007")
    /\ elements = <<"C", "Fe">>
    /\ "fe" \in references
    /\ hasattr(attrs, <<"c", "fe">>)

\* a materialized tag spelled as the store spells the element it names
Symbol(t) ==
    IF \E e \in Tracked : Lower(e) = t
    THEN CHOOSE e \in Tracked : Lower(e) = t
    ELSE t

\* C6: for every materialized tag T, format_abundances(T) completes and
\* returns an entry for every tracked element.
C6_MaterializedComplete ==
    pc = "live" =>
        \A t \in references :
            LET r == format_abundances(Self, Symbol(t)) IN
            /\ r.err = "ok"
            /\ r.ret.kind = "dict"
            /\ DOMAIN r.ret.dict = Tracked

\* C7: whenever format_abundances returns the relative system of a tracked
\* element E, under any spelling of E and however the system was
\* materialized, the entry of E itself is E's [E/H] value.
C7_AnchorIsH ==
    pc = "live" =>
        \A s \in RefArgs : \A e \in Tracked :
            (Lower(s) \in runlist(references) /\ Lower(e) = Lower(s)) =>
                LET r == format_abundances(Self, s) IN
                (r.err = "ok" /\ r.ret.kind = "dict") =>
                    /\ hasattr(attrs, <<Lower(e), "h">>)
                    /\ r.ret.dict[e] = attrs[<<Lower(e), "h">>]

\* calculate_xref(E) has just computed the system of a tracked element E
Materialized ==
    /\ pc = "live" /\ call.op = "calculate_xref" /\ err = "ok" /\ ~printed
    /\ \E e \in Tracked : Lower(e) = Lower(call.arg)

\* C8 as claimed: after calculate_xref(E), E tracked, the [X/E] value the
\* store gives for every tracked X, E included, is [X/H] - [E/H].
C8_AllElements ==
    Materialized =>
        LET r == format_abundances(Self, call.arg) IN
        /\ r.err = "ok"
        /\ r.ret.kind = "dict"
        /\ \A x \in Tracked :
              r.ret.dict[x] = attrs[<<Lower(x), "h">>] - attrs[<<Lower(call.arg), "h">>]

\* C8, amended: after calculate_xref(E) has completed, E naming a tracked
\* element under any spelling, the tag of E is in the references,
\* format_abundances(E) completes, and for every tracked X other than E the
\* stored and returned [X/E] value is [X/H] - [E/H].  The entry of E itself
\* is not covered.
C8_OtherElements ==
    Materialized =>
        LET r == format_abundances(Self, call.arg) IN
        /\ r.err = "ok"
        /\ r.ret.kind = "dict"
        /\ Lower(call.arg) \in references
        /\ RelConsistent(Lower(call.arg))
        /\ \A x \in Tracked :
              Lower(x) # Lower(call.arg) =>
                  r.ret.dict[x] = attrs[<<Lower(x), "h">>] - attrs[<<Lower(call.arg), "h">>]

\* witness of C8: calculate_xref('Mg') on {C: 1, Mg: 0, Fe: 0} given as h:
\* [C/Mg] = 1, [Fe/Mg] = 0
C8_Witness ==
    /\ Materialized
    /\ call.arg = "Mg"
    /\ created.reference = "h"
    /\ created.abundances.items = <<<<"C", 1>>, <<"Mg", 0>>, <<"Fe", 0>>>>
    /\ attrs[<<"c", "mg">>] = 1
    /\ attrs[<<"fe", "mg">>] = 0

\* C9: the spellings 'Fe' and 'fe' of one symbol give format_abundances the
\* same outcome.
C9_CaseInsensitive ==
    pc = "live" => format_abundances(Self, "Fe") = format_abundances(Self, "fe")

\* C10: set_solarref given a solar composition as a mapping completes
\* without error.
C10_MappingAccepted ==
    (pc = "live" /\ call.op = "set_solarref" /\ call.arg = DictArg.val) => err = "ok"

\* the store: everything the object holds
store == <<attrs, elements, references, solarref>>

\* C11: a calculate_xref called while h is not materialized prints its report,
\* raises nothing, and leaves the attributes, the elements, the references
\* and the solar reference as they were.
C11_XrefSoftFailure ==
    [][(pc = "live" /\ "h" \notin references /\ call'.op = "calculate_xref") =>
          /\ err' = "ok"
          /\ printed'
          /\ ret' = NoneRet
          /\ UNCHANGED store]_vars

\* witness of C11: calculate_xref('Fe') has reported on a store {C} given in
\* logeps without a solar reference; the store still has logeps alone
C11_Witness ==
    /\ pc = "live" /\ call = [op |-> "calculate_xref", arg |-> "Fe"]
    /\ err = "ok" /\ printed
    /\ elements = <<"C">>
    /\ references = {"logeps"}
    /\ DOMAIN attrs = {<<"c", "logeps">>}

\* C12: format_abundances never changes the store; called for a tag that is
\* not in references it prints its report, returns None and raises nothing.
C12_FormatSoftFailure ==
    [][(pc = "live" /\ call'.op = "format_abundances") =>
          /\ UNCHANGED store
          /\ Lower(call'.arg) \notin references =>
                /\ err' = "ok"
                /\ printed'
                /\ ret' = NoneRet]_vars

\* witness of C12: format_abundances('Mg') has reported on a store {C, Mg, Fe}
\* given as h, where h and fe are materialized and mg is not
C12_Witness ==
    /\ pc = "live" /\ call = [op |-> "format_abundances", arg |-> "Mg"]
    /\ err = "ok" /\ printed /\ ret = NoneRet
    /\ elements = <<"C", "Mg", "Fe">>
    /\ references = {"h", "fe"}

\* __init__ has just been called with a mapping
CreatedFromMapping == call.op = "init" /\ created.abundances.kind = "dict"

\* the reference given to __init__ is neither logeps nor h nor a key of the mapping
InvalidReference ==
    /\ Lower(created.reference) \notin {"logeps", "h"}
    /\ created.reference \notin Range(Keys(created.abundances.items))

\* C13: __init__ given a mapping raises IndexError, leaving no object,
\* whenever the reference is neither logeps nor h nor a key of the mapping,
\* and never raises IndexError when it is one of these.
C13_InvalidReference ==
    CreatedFromMapping =>
        /\ InvalidReference =>
              /\ pc = "failed"
              /\ err = "IndexError"
              /\ attrs = EmptyAttrs /\ elements = <<>> /\ references = {}
        /\ ~InvalidReference => err # "IndexError"

\* witness of C13: {C: 1, Fe: 0} given relative to Mg
C13_Witness ==
    /\ pc = "failed" /\ call.op = "init" /\ err = "IndexError"
    /\ created.reference = "Mg"
    /\ created.abundances.items = <<<<"C", 1>>, <<"Fe", 0>>>>

\* __init__ has just been called with no abundance data: nothing, or an empty mapping
CreatedFromNothing ==
    /\ call.op = "init"
    /\ created.abundances.kind = "None" \/ created.abundances.items = <<>>

\* C14: __init__ given no abundance data (nothing, or an empty mapping) raises
\* TypeError and leaves no object, for every reference; no store has an
\* empty element set.
C14_MissingAbundances ==
    /\ CreatedFromNothing => (pc = "failed" /\ err = "TypeError")
    /\ pc = "live" => elements # <<>>

\* C20: __init__ given logeps values, no solar reference, and Fe among the
\* keys returns a store without error, with logeps the only reference
\* and no h or fe attribute.
C20_FeSkippedSilently ==
    (CreatedFromMapping /\ Lower(created.reference) = "logeps"
        /\ created.solar_reference = NoneArg
        /\ "Fe" \in Range(Keys(created.abundances.items))) =>
        /\ pc = "live"
        /\ err = "ok"
        /\ references = {"logeps"}
        /\ \A n \in DOMAIN attrs : n[2] = "logeps"

\* C15: a set_solarref called with a name the lookup does not recognize
\* raises the lookup's UnknownReference and leaves the attributes, the
\* elements, the references and the solar reference as they were.
C15_UnknownReference ==
    [][(pc = "live" /\ call'.op = "set_solarref" /\ call'.arg = "Unknown2000") =>
          /\ err' = "UnknownReference"
          /\ UNCHANGED store]_vars

\* witness of C15: the unrecognized name was given to a store {C, Mg, Fe} in
\* logeps under Asplund2009 with the mg system materialized
C15_Witness ==
    /\ pc = "live" /\ call = [op |-> "set_solarref", arg |-> "Unknown2000"]
    /\ err = "UnknownReference"
    /\ elements = <<"C", "Mg", "Fe">>
    /\ solarref = "asplund2009"
    /\ references = {"logeps", "h", "fe", "mg"}

\* the keys of the mapping __init__ was given, in its order
CreatedKeys ==
    [i \in DOMAIN created.abundances.items |-> created.abundances.items[i][1]]

\* C16: the elements of a store are the keys of the mapping __init__ was
\* given and no call changes them; a step that is neither a set_solarref nor
\* a calculate_xref leaves the whole store as it was.
C16_ElementsFixed ==
    [][/\ pc' = "live" => elements' = CreatedKeys'
       /\ pc = "live" => elements' = elements
       /\ (pc = "live" /\ call'.op \notin {"set_solarref", "calculate_xref"}) =>
              UNCHANGED store]_vars

\* witness of C16: {C, Mg, Fe} given in logeps under Asplund2009; the mg
\* system was materialized, the solar reference changed, and a
\* format_abundances has returned: the elements are still C, Mg, Fe
C16_Witness ==
    /\ pc = "live" /\ call.op = "format_abundances" /\ ret.kind = "dict"
    /\ created.reference = "logeps"
    /\ created.solar_reference = StrArg("Asplund2009")
    /\ solarref = "grevesse2007"
    /\ "mg" \in references
    /\ elements = <<"C", "Mg", "Fe">>
    /\ elements = CreatedKeys

\* the keyword settings of kwargs that belong to a stage with parameters K
Supplied(kwargs, K) == [k \in DOMAIN kwargs \cap K |-> kwargs[k]]

\* the four stage calls, each with the supplied settings that belong to it
FourStages(kwargs) ==
    <<Stage("set_wave", Supplied(kwargs, {"lambda_range", "delta_lambda"})),
      Stage("set_abund", Supplied(kwargs, {"metals", "alphas", "helium", "rprocess",
                                           "sprocess"})),
      Stage("run_babsma", Supplied(kwargs, {"model", "vmicro", "marcs_file_flag"})),
      Stage("run_bsyn", Supplied(kwargs, {"sph_flag", "linelists", "isotopes"}))>>

\* C17: TurbospecManager(auto=False, ...) runs no stage and leaves the four
\* stage flags false; TurbospecManager(auto=True, ...) calls set_wave first,
\* with the lambda_range and delta_lambda it was given, and, given a
\* wavelength range, a model whose file exists and line lists, completes
\* after calling set_wave, set_abund, run_babsma, run_bsyn in this order,
\* each with the supplied settings that belong to it.
C17_AutoStages ==
    call.op = "manager_init" =>
        /\ ~call.arg.auto =>
              /\ mpc = "live" /\ stages = <<>>
              /\ \A f \in {"_wave_flag", "_abund_flag", "_babsma_flag", "_syn_flag"} :
                    mgr[f] = FALSE
        /\ call.arg.auto =>
              /\ stages # <<>>
              /\ stages[1] = FourStages(call.arg.kwargs)[1]
        /\ (call.arg.auto /\ call.arg.isfile
               /\ {"lambda_range", "model", "linelists"} \subseteq DOMAIN call.arg.kwargs) =>
              /\ mpc = "live" /\ err = "ok"
              /\ stages = FourStages(call.arg.kwargs)

\* the solar table a call of set_abund named
NamedSolar(solar_reference) ==
    IF solar_reference.kind = "dict" THEN CustomSolar ELSE SolarTable(solar_reference.val)

\* the elements the abundances argument gives, and the value it gives one
GivenElements(abundances) == {abundances.items[i][1] : i \in DOMAIN abundances.items}

GivenValue(abundances, elem) ==
    abundances.items[CHOOSE i \in DOMAIN abundances.items : abundances.items[i][1] = elem][2]

\* C18: after set_abund the abundance flag is set and the table, keyed by
\* atomic number, holds exactly: for every given element not in exclude the
\* given value; for every other element of the solar table except H and He
\* and not in exclude, solar + metals, plus alphas for an alpha element; and
\* nothing for an element in exclude.
C18_SetAbundTable ==
    (mpc = "live" /\ call.op = "set_abund") =>
        LET kw == call.arg
            solar == NamedSolar(kw.solar_reference)
            given == GivenElements(kw.abundances)
            scaledElements == (DOMAIN solar \ {"H", "He"}) \ given
            kept == (given \cup scaledElements) \ Range(kw.exclude)
        IN /\ err = "ok"
           /\ mgr["_abund_flag"] = TRUE
           /\ DOMAIN mgr["abundances"] = {atomic_sym_to_num(e) : e \in kept}
           /\ \A e \in given \ Range(kw.exclude) :
                 mgr["abundances"][atomic_sym_to_num(e)] = GivenValue(kw.abundances, e)
           /\ \A e \in scaledElements \ Range(kw.exclude) :
                 mgr["abundances"][atomic_sym_to_num(e)] =
                    solar[e] + kw.metals + (IF e \in Range(ALPHAS) THEN kw.alphas ELSE 0)
           /\ \A e \in Range(kw.exclude) :
                 atomic_sym_to_num(e) \notin DOMAIN mgr["abundances"]

\* witness of C18: metals 1, alphas 1, C and He given, Fe excluded, under
\* Asplund2009: C 1 as given, He 0 as given, Mg 2 + 1 + 1, no Fe, no H
C18_Witness ==
    /\ mpc = "live" /\ call.op = "set_abund" /\ err = "ok"
    /\ call.arg = [metals |-> 1, alphas |-> 1,
                   abundances |-> [kind |-> "dict", items |-> <<<<"C", 1>>, <<"He", 0>>>>],
                   solar_reference |-> StrArg("Asplund2009"), exclude |-> <<"Fe">>]
    /\ mgr["abundances"] = [n \in {2, 6, 12} |-> CASE n = 2 -> 0 [] n = 6 -> 1 [] n = 12 -> 4]

\* C19: run_faltbon raises TypeError without starting faltbon when profile
\* is None or fwhm and vel are both None; otherwise faltbon is started with
\* the broadening fwhm if fwhm is given and -vel if only vel is, and with no
\* result name given the name returned is
\* '<filename>_<profile>_<broadening>.convol'.
C19_Faltbon ==
    call.op = "run_faltbon" =>
        LET a == call.arg IN
        IF a.profile.kind = "None" \/ (a.fwhm.kind = "None" /\ a.vel.kind = "None")
        THEN err = "TypeError" /\ ~proc.started /\ ret.kind = "None"
        ELSE LET b == IF a.fwhm.kind # "None" THEN a.fwhm.val ELSE 0 - a.vel.val IN
             /\ err = "ok"
             /\ proc.started
             /\ proc.stdin[3] = ToString(b) \o ".000\n"
             /\ proc.stdin[4] = ToString(a.profile.val) \o "\n"
             /\ a.result.kind = "None" =>
                   ret.val = a.filename \o "_" \o ToString(a.profile.val) \o "_"
                             \o ToString(b) \o ".convol"
             /\ a.result.kind # "None" => ret = a.result

\* witness of C19: profile 2, fwhm 0 and vel 1 both given, no result name:
\* the broadening is the FWHM, 0, and the name 'sun.spec_2_0.convol'
C19_Witness ==
    /\ call.op = "run_faltbon" /\ err = "ok"
    /\ call.arg.profile = Given(2) /\ call.arg.fwhm = Given(0) /\ call.arg.vel = Given(1)
    /\ call.arg.result.kind = "None"
    /\ ret = Given("sun.spec_2_0.convol")
    /\ proc.stdin = <<"in/sun.spec\n", "in/sun.spec_2_0.convol\n", "0.000\n", "2\n">>

----------------------------------------------------------------------------
(* Solar references and relative systems: frames and algebra *)

\* the tags a recognized solar name is stored under
SolarTags == {Lower(n) : n \in SolarNames}

\* C21: a set_solarref that completes on a store where h is materialized and
\* logeps is not sets logeps(X) = [X/H] + solar(X) for every tracked X, adds
\* logeps to the references, and leaves every h value and every value of a
\* relative system as it was.
C21_FirstSolarOnH ==
    [][(pc = "live" /\ "h" \in references /\ "logeps" \notin references
          /\ call'.op = "set_solarref" /\ err' = "ok") =>
          /\ references' = references \cup {"logeps"}
          /\ solarref' \in SolarTags
          /\ \A x \in Tracked :
                /\ hasattr(attrs', <<Lower(x), "logeps">>)
                /\ attrs'[<<Lower(x), "logeps">>] =
                       attrs[<<Lower(x), "h">>] + SolarTable(call'.arg)[x]
          /\ \A n \in DOMAIN attrs :
                n[2] # "logeps" => (hasattr(attrs', n) /\ attrs'[n] = attrs[n])]_vars

\* witness of C21: {C: 1, Fe: 1} given relative to Fe without a solar
\* reference (h: C 2, Fe 1; [C/Fe] 1), then set_solarref('Asplund2009'):
\* logeps C = 2 + 1, logeps Fe = 1 + 3, h and [C/Fe] as before
C21_Witness ==
    /\ pc = "live" /\ call = [op |-> "set_solarref", arg |-> "Asplund2009"] /\ err = "ok"
    /\ created.reference = "Fe"
    /\ created.solar_reference = NoneArg
    /\ created.abundances.items = <<<<"C", 1>>, <<"Fe", 1>>>>
    /\ references = {"fe", "h", "logeps"}
    /\ attrs[<<"c", "logeps">>] = 3
    /\ attrs[<<"fe", "logeps">>] = 4
    /\ attrs[<<"c", "h">>] = 2
    /\ attrs[<<"fe", "h">>] = 1
    /\ attrs[<<"c", "fe">>] = 1

\* C22: once logeps is in the references, no call changes a logeps value or
\* takes logeps out of the references: set_solarref derives h from logeps,
\* calculate_xref derives the relative systems from h.
C22_LogepsKept ==
    [][(pc = "live" /\ "logeps" \in references) =>
          /\ "logeps" \in references'
          /\ \A n \in DOMAIN attrs :
                n[2] = "logeps" => (hasattr(attrs', n) /\ attrs'[n] = attrs[n])]_vars

\* witness of C22: {C: 1, Fe: 0} given as h without a solar reference; the
\* first set_solarref, with Asplund2009, derived logeps C = 1 + 1 and
\* Fe = 0 + 3; after set_solarref('Grevesse2007') logeps is the same and h
\* is C = 2 - 3, Fe = 3 - 1
C22_Witness ==
    /\ pc = "live" /\ call = [op |-> "set_solarref", arg |-> "Grevesse2007"] /\ err = "ok"
    /\ created.reference = "h"
    /\ created.solar_reference = NoneArg
    /\ created.abundances.items = <<<<"C", 1>>, <<"Fe", 0>>>>
    /\ solarref = "grevesse2007"
    /\ attrs[<<"c", "logeps">>] = 2
    /\ attrs[<<"fe", "logeps">>] = 3
    /\ attrs[<<"c", "h">>] = -1
    /\ attrs[<<"fe", "h">>] = 2

\* C23: in every state of a store, a relative system in the references comes
\* with h in the references and with the h value of its own element.
C23_RelativeOnH ==
    pc = "live" =>
        \A t \in runlist(references) :
            /\ "h" \in references
            /\ hasattr(attrs, <<t, "h">>)

\* C24: every store has logeps or h in its references, so set_solarref
\* always finds one of its two branches; after a set_solarref that
\* completed, called directly or by __init__, both are in the references.
C24_LogepsOrH ==
    pc = "live" =>
        /\ "logeps" \in references \/ "h" \in references
        /\ (call.op = "set_solarref" /\ err = "ok") => {"logeps", "h"} \subseteq references
        /\ (call.op = "init" /\ created.solar_reference # NoneArg) =>
               {"logeps", "h"} \subseteq references

\* witness of C24: {C: 1, Mg: 0} given relative to C without a solar
\* reference has c and h; set_solarref('Grevesse2007') has completed and
\* the references are c, h and logeps
C24_Witness ==
    /\ pc = "live" /\ call = [op |-> "set_solarref", arg |-> "Grevesse2007"] /\ err = "ok"
    /\ created.reference = "C"
    /\ created.solar_reference = NoneArg
    /\ created.abundances.items = <<<<"C", 1>>, <<"Mg", 0>>>>
    /\ references = {"c", "h", "logeps"}
    /\ solarref = "grevesse2007"

\* the argument of the set_solarref that was called last
LastSolarArg == IF call.arg = DictArg.val THEN DictArg ELSE StrArg(call.arg)

\* C25: right after a set_solarref(R), a second set_solarref(R) ends as the
\* first did and leaves the attributes, the elements, the references and
\* the solar reference as the first left them, whatever the iteration order.
C25_SetSolarrefIdempotent ==
    (pc = "live" /\ call.op = "set_solarref") =>
        \A o \in RunOrders(LastSolarArg) :
            set_solarref(Self, LastSolarArg, o) = Out(Self, err)

\* witness of C25: {C: 1, Mg: 0, Fe: 1} given as h without a solar reference,
\* [X/Mg] materialized, then set_solarref('Asplund2009'), which derived
\* logeps (C 2, Mg 2, Fe 4); the same call again goes from logeps back to h
\* and re-derives [X/Fe] and [X/Mg], and changes nothing
C25_Witness ==
    /\ pc = "live" /\ call = [op |-> "set_solarref", arg |-> "Asplund2009"] /\ err = "ok"
    /\ created.reference = "h"
    /\ created.solar_reference = NoneArg
    /\ created.abundances.items = <<<<"C", 1>>, <<"Mg", 0>>, <<"Fe", 1>>>>
    /\ references = {"h", "fe", "mg", "logeps"}
    /\ attrs[<<"c", "logeps">>] = 2
    /\ attrs[<<"c", "h">>] = 1
    /\ attrs[<<"c", "mg">>] = 1
    /\ set_solarref(Self, StrArg("Asplund2009"), <<"fe", "mg">>) = Out(Self, "ok")

\* the store a calculate_xref(reference) leaves
AfterXref(self, reference) == calculate_xref(self, reference).self

\* the attributes of at outside the system of tag t
Outside(at, t) == [n \in {m \in DOMAIN at : m[2] # t} |-> at[n]]

\* C26: with h in the references, calculate_xref(E) writes only values of
\* the system of E and adds only the tag of E, which it adds when it
\* completes: the logeps values, the h values, every other relative system,
\* the elements and the solar reference stay as they were.  Two
\* calculate_xref calls give the same store in either order, and a repeated
\* call changes nothing.
C26_XrefFrame ==
    (pc = "live" /\ "h" \in references) =>
        \A after \in {[e \in RefArgs |-> calculate_xref(Self, e)]} :
        \A then \in {[e1 \in RefArgs, e2 \in RefArgs |-> AfterXref(after[e1].self, e2)]} :
            \A e1 \in RefArgs :
                /\ Outside(after[e1].self.attrs, Lower(e1)) = Outside(attrs, Lower(e1))
                /\ DOMAIN attrs \subseteq DOMAIN after[e1].self.attrs
                /\ after[e1].self.elements = elements
                /\ after[e1].self.solarref = solarref
                /\ after[e1].self.references =
                       IF after[e1].err = "ok" THEN references \cup {Lower(e1)}
                       ELSE references
                /\ then[e1, e1] = after[e1].self
                /\ \A e2 \in RefArgs : then[e1, e2] = then[e2, e1]

\* witness of C26: {C: 1, Mg: 0, Fe: 1} given as h (fe materialized by
\* __init__); calculate_xref('Mg') then calculate_xref('C') have completed:
\* [C/Mg] = 1 and [Mg/C] = -1 are there, h and [X/Fe] are as __init__ left
\* them, and the two calls in the other order give this same store
C26_Witness ==
    /\ pc = "live" /\ call = [op |-> "calculate_xref", arg |-> "C"] /\ err = "ok" /\ ~printed
    /\ created.reference = "h"
    /\ created.solar_reference = NoneArg
    /\ created.abundances.items = <<<<"C", 1>>, <<"Mg", 0>>, <<"Fe", 1>>>>
    /\ references = {"h", "fe", "mg", "c"}
    /\ attrs[<<"c", "mg">>] = 1
    /\ attrs[<<"mg", "c">>] = -1
    /\ attrs[<<"c", "h">>] = 1
    /\ attrs[<<"c", "fe">>] = 0
    /\ AfterXref(AfterXref(init(created.abundances, "h", NoneArg).self, "C"), "Mg") = Self

\* the iteration orders a set_solarref called on self can meet
OrdersOf(self) == Orders(runlist(self.references))

\* C27: on a store created from logeps values, a set_solarref(R2) that
\* completes leaves the same attributes, elements, references and solar
\* reference whether or not a set_solarref(R1) was called just before it,
\* for every R1 and every iteration order.
C27_LastReferenceWins ==
    (pc = "live" /\ Lower(created.reference) = "logeps") =>
        \A r2 \in SolarArgs :
            \A alone \in {set_solarref(Self, r2, o) : o \in OrdersOf(Self)} :
                alone.err = "ok" =>
                    \A r1 \in SolarArgs :
                        \A first \in {set_solarref(Self, r1, o) : o \in OrdersOf(Self)} :
                            \A o \in OrdersOf(first.self) :
                                set_solarref(first.self, r2, o) = alone

\* witness of C27: {C: 1, Mg: 0} given in logeps under Asplund2009, then
\* set_solarref('Grevesse2007'): h is C = 1 - 3, Mg = 0 - 1, the store that
\* set_solarref('Grevesse2007') alone gives on the same values created
\* without a solar reference
C27_Witness ==
    /\ pc = "live" /\ call = [op |-> "set_solarref", arg |-> "Grevesse2007"] /\ err = "ok"
    /\ created.reference = "logeps"
    /\ created.solar_reference = StrArg("Asplund2009")
    /\ created.abundances.items = <<<<"C", 1>>, <<"Mg", 0>>>>
    /\ solarref = "grevesse2007"
    /\ attrs[<<"c", "h">>] = -2
    /\ attrs[<<"mg", "h">>] = -1
    /\ set_solarref(init(created.abundances, "logeps", NoneArg).self,
                    StrArg("Grevesse2007"), <<>>) = Out(Self, "ok")

====
